---- MODULE Spec2Model ----
(***************************************************************************)
(* The interaction state machine of the Combobox component                 *)
(* (src/components/combobox/combobox.jsx): the open/close state of each    *)
(* mounted instance, the module-level currentOpenDropdown, the active menu *)
(* option, the selection emitted by a commit, the deferred close scheduled *)
(* by a blur, the active pill of the selected options, the sub-render that *)
(* render dispatches to, and the host's property updates.                  *)
(*                                                                         *)
(* Array indices are the JavaScript ones (0-based, -1 for "none"); At      *)
(* reads an array the way JavaScript does.  Every handler is an operator   *)
(* from a world [state, cur, fired] to the world it leaves behind, so that *)
(* a handler calling another handler is a composition; an action applies   *)
(* one top-level handler to the current world.  No handler of the source   *)
(* reads its own state after a setState in the same run, so applying each  *)
(* setState at once equals React's batching.  The host's prop updates      *)
(* (componentWillReceiveProps) are steps of their own, between handlers.   *)
(*                                                                         *)
(* Dialog, Menu, InnerInput and mapKeyEventCallbacks are imported; the     *)
(* model takes from them what combobox.jsx hands them: the Dialog calls    *)
(* onOpen and onClose while getDialog renders it, the Menu calls onSelect  *)
(* with the selection it was given and one of its options, the             *)
(* SelectedListBox calls its events with a pill's option and index, the    *)
(* key helper calls the callback registered for the key.  DOM focus        *)
(* (this.inputRef.focus()) is no state of the component and is left out.   *)
(***************************************************************************)
EXTENDS Integers, Sequences, FiniteSets, TLC

VARIABLES
  props,                \* props[i]: this.props of instance i (propTypes, lines 35-155)
  state,                \* state[i]: this.state of instance i (lines 182-190)
  mounted,              \* mounted[i]: instance i has not been unmounted (line 226)
  timers,               \* timers[i]: the pending setTimeout callbacks of i (line 487)
  currentOpenDropdown,  \* the module-level variable of line 33
  fired                 \* the props.events callbacks the last handler called, in order

vars == <<props, state, mounted, timers, currentOpenDropdown, fired>>

(***************************************************************************)
(* Bounds of the model.                                                    *)
(***************************************************************************)
NumInstances == 2
MaxOptions == 2
MaxSelection == 2
MaxTimers == 1

Instances == 1..NumInstances

(***************************************************************************)
(* Values.                                                                 *)
(***************************************************************************)
\* currentOpenDropdown === undefined
NoDropdown == 0

\* The JavaScript value undefined where an option is expected; it is no option.
Undefined == {<<"undefined", 0>>}

\* An optional boolean (the isOpen prop, state.listboxHasFocus): <<>> when
\* it is undefined, <<b>> when it is the boolean b.
Absent == <<>>

\* An option is an object: the set of its <<property, value>> pairs.
OptA == {<<"id", 1>>, <<"label", 1>>}
OptB == {<<"id", 2>>, <<"label", 2>>}
\* An option all of whose properties are properties of OptA as well.
OptA0 == {<<"id", 1>>}

OptionUniverse == {OptA, OptB, OptA0}

\* The options the host puts in the menu.
MenuOptions == {OptA, OptB}

RECURSIVE SeqsUpTo(_, _)
SeqsUpTo(S, n) ==
  IF n = 0 THEN {<<>>}
  ELSE LET shorter == SeqsUpTo(S, n - 1)
       IN  shorter \cup {Append(s, x) : s \in {t \in shorter : Len(t) = n - 1}, x \in S}

\* The options arrays the host supplies.
OptionLists == SeqsUpTo(MenuOptions, MaxOptions)

\* The names of the callbacks of props.events.
EventNames ==
  {"onBlur", "onChange", "onClose", "onFocus", "onOpen", "onRequestClose",
   "onRequestOpen", "onRequestRemoveSelectedOption", "onSelect", "onSubmit"}

Variants == {"base", "inline-listbox", "readonly"}

(***************************************************************************)
(* lodash and Array helpers, by what they compute.                         *)
(***************************************************************************)
\* array[i] in JavaScript: undefined outside the array.
At(array, i) == IF i >= 0 /\ i < Len(array) THEN array[i + 1] ELSE Undefined

\* lodash.isequal: deep value equality.
isEqual(a, b) == a = b

\* lodash.isboolean
isBoolean(v) == v # Absent

\* The predicate lodash builds from an object given to find or reject
\* (_.matches): object has every property of source, with an equal value.
matches(object, source) == source \subseteq object

\* lodash.find(collection, source): the first matching element, or undefined.
find(collection, source) ==
  LET hits == {k \in 1..Len(collection) : matches(collection[k], source)}
  IN  IF hits = {} THEN Undefined
      ELSE collection[CHOOSE k \in hits : \A m \in hits : k <= m]

\* lodash.reject(collection, source): the elements that do not match, in order.
reject(collection, source) ==
  SelectSeq(collection, LAMBDA e : ~matches(e, source))

\* Array.prototype.findIndex with the predicate isEqual(item, target).
findIndex(array, target) ==
  LET hits == {k \in 1..Len(array) : isEqual(array[k], target)}
  IN  IF hits = {} THEN -1
      ELSE (CHOOSE k \in hits : \A m \in hits : k <= m) - 1

(***************************************************************************)
(* The world a handler runs in.                                            *)
(***************************************************************************)
World == [state |-> state, cur |-> currentOpenDropdown, fired |-> <<>>]

\* this.props.events.<name>(...), guarded by "if (this.props.events.<name>)".
fire(w, i, name, selection) ==
  IF name \in props[i].events
    THEN [w EXCEPT !.fired = Append(@, [inst |-> i, name |-> name, selection |-> selection])]
    ELSE w

\* this.setState(partial): merges partial into the state; React drops the
\* update of a component that is no longer mounted.
setState(w, i, partial) ==
  IF mounted[i]
    THEN LET old == w.state[i]
         IN  [w EXCEPT !.state[i] =
                [f \in DOMAIN old |-> IF f \in DOMAIN partial THEN partial[f] ELSE old[f]]]
    ELSE w

(***************************************************************************)
(* Shared getters.                                                         *)
(***************************************************************************)
getIsOpen(w, i) ==
  IF isBoolean(props[i].isOpen) THEN props[i].isOpen[1] ELSE w.state[i].isOpen

getIsActiveOption(w, i) ==
  w.state[i].activeOption # Undefined /\ w.state[i].activeOptionIndex # -1

\* getNewActiveOptionIndex with the bound of hasNewIndex off by one: the
\* index just past the end of options passes.
getNewActiveOptionIndex_offByOne(activeOptionIndex, offset, options) ==
  LET newIndex == activeOptionIndex + offset
      hasNewIndex == Len(options) >= newIndex /\ newIndex >= 0
  IN  IF hasNewIndex THEN newIndex ELSE activeOptionIndex

getNewActiveOptionIndex(activeOptionIndex, offset, options) ==
  LET newIndex == activeOptionIndex + offset
      hasNewIndex == Len(options) > newIndex /\ newIndex >= 0
  IN  IF hasNewIndex THEN newIndex ELSE activeOptionIndex

isSelected(selection, option) == find(selection, option) # Undefined

(***************************************************************************)
(* Menu open/close.                                                        *)
(***************************************************************************)
handleRequestClose(w, i) ==
  LET w1 == fire(w, i, "onRequestClose", <<>>)
  IN  IF getIsOpen(w1, i) THEN setState(w1, i, [isOpen |-> FALSE]) ELSE w1

handleClickOutside(w, i) == handleRequestClose(w, i)

openDialog(w, i) ==
  IF "onRequestOpen" \in props[i].events
    THEN fire(w, i, "onRequestOpen", <<>>)
    ELSE setState(w, i, [isOpen |-> TRUE])

\* handleClose without the test of getIsOpen.
handleClose_unguarded(w, i) ==
  LET w1 == [w EXCEPT !.cur = IF @ = i THEN NoDropdown ELSE @]
      w2 == setState(w1, i, [activeOption |-> Undefined,
                             activeOptionIndex |-> -1,
                             isOpen |-> FALSE])
  IN  fire(w2, i, "onClose", <<>>)

handleClose(w, i) ==
  IF getIsOpen(w, i)
    THEN LET w1 == [w EXCEPT !.cur = IF @ = i THEN NoDropdown ELSE @]
             w2 == setState(w1, i, [activeOption |-> Undefined,
                                    activeOptionIndex |-> -1,
                                    isOpen |-> FALSE])
         IN  fire(w2, i, "onClose", <<>>)
    ELSE w

handleOpen(w, i) ==
  IF ~getIsOpen(w, i)
    THEN LET w1 == IF w.cur # NoDropdown THEN handleClose(w, w.cur) ELSE w
             w2 == [w1 EXCEPT !.cur = i]
             w3 == setState(w2, i, [isOpen |-> TRUE])
         IN  fire(w3, i, "onOpen", <<>>)
    ELSE w

requestOpenMenu(w, i) ==
  LET isInlineSingleSelectionAndIsNotSelected ==
        /\ ~props[i].multiple
        /\ Len(props[i].selection) = 0
        /\ props[i].variant = "inline-listbox"
  IN  IF \/ isInlineSingleSelectionAndIsNotSelected
         \/ props[i].multiple
         \/ props[i].variant = "readonly"
        THEN openDialog(w, i)
        ELSE w

\* getInlineMenu / getDialog: whether the menu is rendered, and whether it is
\* rendered inside a Dialog.
menuIsRendered(w, i) == ~props[i].disabled /\ getIsOpen(w, i)

dialogIsRendered(w, i) == ~props[i].isInline /\ menuIsRendered(w, i)

(***************************************************************************)
(* Input and menu keyboard event methods.                                  *)
(***************************************************************************)
offsets(direction) == IF direction = "next" THEN 1 ELSE -1

handleNavigateListboxMenu(w, i, direction) ==
  LET newIndex == getNewActiveOptionIndex(w.state[i].activeOptionIndex,
                                          offsets(direction),
                                          props[i].options)
  IN  setState(w, i, [activeOption |-> At(props[i].options, newIndex),
                      activeOptionIndex |-> newIndex])

\* newSelection with the single-selection branch appending to the selection
\* instead of replacing it.
newSelection_singleAppends(multiple, propsSelection, selection, option) ==
  IF ~isSelected(selection, option) THEN Append(propsSelection, option)
  ELSE reject(propsSelection, option)

\* The selection handleSelect hands to events.onSelect: propsSelection is
\* this.props.selection, selection and option are the handler's arguments.
newSelection(multiple, propsSelection, selection, option) ==
  LET singleSelectAndSelectedWasNotClicked == ~multiple /\ ~isSelected(selection, option)
      multiSelectAndSelectedWasNotClicked == multiple /\ ~isSelected(selection, option)
  IN  IF singleSelectAndSelectedWasNotClicked THEN <<option>>
      ELSE IF multiSelectAndSelectedWasNotClicked THEN Append(propsSelection, option)
      ELSE reject(propsSelection, option)

handleSelect(w, i, selection, option) ==
  LET w1 == fire(w, i, "onSelect",
                 newSelection(props[i].multiple, props[i].selection, selection, option))
  IN  handleClose(w1, i)

\* handleKeyDownDown without the call of openDialog.
handleKeyDownDown_navigatesOnly(w, i, shiftKey) ==
  handleNavigateListboxMenu(w, i, "next")

handleKeyDownDown(w, i, shiftKey) ==
  LET w1 == IF ~shiftKey THEN openDialog(w, i) ELSE w
  IN  handleNavigateListboxMenu(w1, i, "next")

handleKeyDownUp(w, i, shiftKey) ==
  IF ~shiftKey /\ w.state[i].isOpen
    THEN handleNavigateListboxMenu(w, i, "previous")
    ELSE w

\* handleInputSubmit without the test of predefinedOptionsOnly.
handleInputSubmit_ignoresPredefined(w, i, value) ==
  IF getIsActiveOption(w, i)
    THEN handleSelect(w, i, props[i].selection, w.state[i].activeOption)
    ELSE IF value # ""
      THEN fire(w, i, "onSubmit", <<>>)
      ELSE w

\* value is event.target.value, "" when the input is empty.
handleInputSubmit(w, i, value) ==
  IF getIsActiveOption(w, i)
    THEN handleSelect(w, i, props[i].selection, w.state[i].activeOption)
    ELSE IF ~props[i].predefinedOptionsOnly /\ value # ""
      THEN fire(w, i, "onSubmit", <<>>)
      ELSE w

\* mapKeyEventCallbacks: the callback registered for the key's code.
handleKeyDown(w, i, key, shiftKey, value) ==
  CASE key = "DOWN" -> handleKeyDownDown(w, i, shiftKey)
    [] key = "ENTER" -> handleInputSubmit(w, i, value)
    [] key = "ESCAPE" -> handleClose(w, i)
    [] key = "UP" -> handleKeyDownUp(w, i, shiftKey)
    [] OTHER -> w

\* The key events the model sends: the arrow keys with and without shift,
\* Enter on an empty and on a filled input, Escape.
KeyEvents ==
  [key : {"DOWN", "UP"}, shiftKey : BOOLEAN, value : {""}]
    \cup [key : {"ENTER"}, shiftKey : {FALSE}, value : {"", "x"}]
    \cup [key : {"ESCAPE"}, shiftKey : {FALSE}, value : {""}]

handleInputChange(w, i) ==
  fire(requestOpenMenu(w, i), i, "onChange", <<>>)

\* The part of handleInputBlur that runs at once; the setTimeout is the
\* action's increment of timers.
handleInputBlur(w, i) == fire(w, i, "onBlur", <<>>)

(***************************************************************************)
(* Selected options with listbox of pills event methods.                   *)
(***************************************************************************)
\* The index argument a caller leaves out (undefined): index + 1 is then NaN,
\* which equals no length and is the index of no pill.
NoIndex == -2

\* this.inputRef is the input InnerInput hands over when it mounts, so the
\* "&& this.inputRef" of the first branch holds whenever a handler runs.
handleRemoveSelectedOption(w, i, option, index) ==
  LET selection == props[i].selection
      onlyOnePillAndInputExists == Len(selection) = 1
      isReadOnlyAndTwoPillsExists ==
        /\ Len(selection) = 2
        /\ props[i].variant = "readonly"
        /\ props[i].multiple
      lastPillWasRemoved == index # NoIndex /\ index + 1 = Len(selection)
      w1 == IF onlyOnePillAndInputExists \/ isReadOnlyAndTwoPillsExists
              THEN w
              ELSE IF lastPillWasRemoved
                THEN setState(w, i, [activeSelectedOption |-> At(selection, index - 1),
                                     activeSelectedOptionIndex |-> index - 1,
                                     listboxHasFocus |-> <<TRUE>>])
                ELSE setState(w, i, [activeSelectedOption |->
                                       At(selection, IF index = NoIndex THEN NoIndex ELSE index + 1),
                                     activeSelectedOptionIndex |-> index,
                                     listboxHasFocus |-> <<TRUE>>])
  IN  fire(w1, i, "onRequestRemoveSelectedOption", reject(selection, option))

handlePillClickListboxOfPills(w, i, option, index) ==
  setState(w, i, [activeSelectedOption |-> option,
                  activeSelectedOptionIndex |-> index,
                  listboxHasFocus |-> <<TRUE>>])

handleNavigateListboxOfPills(w, i, direction) ==
  LET selection == props[i].selection
      prevIndex == w.state[i].activeSelectedOptionIndex
      isLastOptionAndRightIsPressed ==
        prevIndex + 1 = Len(selection) /\ direction = "next"
      isFirstOptionAndLeftIsPressed ==
        prevIndex = 0 /\ direction = "previous"
      newIndex == getNewActiveOptionIndex(prevIndex, offsets(direction), selection)
  IN  IF isLastOptionAndRightIsPressed
        THEN setState(w, i, [activeSelectedOption |-> At(selection, 0),
                             activeSelectedOptionIndex |-> 0,
                             listboxHasFocus |-> <<TRUE>>])
        ELSE IF isFirstOptionAndLeftIsPressed
          THEN setState(w, i, [activeSelectedOption |-> At(selection, Len(selection) - 1),
                               activeSelectedOptionIndex |-> Len(selection) - 1,
                               listboxHasFocus |-> <<TRUE>>])
          ELSE setState(w, i, [activeSelectedOption |-> At(selection, newIndex),
                               activeSelectedOptionIndex |-> newIndex,
                               listboxHasFocus |-> <<TRUE>>])

handleBlurPill(w, i) == setState(w, i, [listboxHasFocus |-> <<FALSE>>])

(***************************************************************************)
(* Lifecycle.                                                              *)
(***************************************************************************)
\* What the constructor leaves in this.state.
constructorState(p) ==
  [isOpen |-> FALSE,
   activeOption |-> Undefined,
   activeOptionIndex |-> -1,
   activeSelectedOption |-> At(p.selection, 0),
   activeSelectedOptionIndex |-> 0,
   listboxHasFocus |-> Absent]

\* componentWillReceiveProps without the update of activeOptionIndex when
\* the active option is found in the new options.
componentWillReceiveProps_keepsIndex(w, i, nextProps) ==
  LET index == findIndex(nextProps.options, w.state[i].activeOption)
      w1 == IF ~isEqual(props[i].options, nextProps.options) /\ index = -1
              THEN setState(w, i, [activeOption |-> Undefined,
                                   activeOptionIndex |-> -1])
              ELSE w
      selectedOptionsRenderIsInitialRender ==
        Len(props[i].selection) = 0 /\ Len(nextProps.selection) > 0
  IN  IF selectedOptionsRenderIsInitialRender
        THEN setState(w1, i, [activeSelectedOption |-> At(nextProps.selection, 0),
                              activeSelectedOptionIndex |-> 0])
        ELSE w1

componentWillReceiveProps(w, i, nextProps) ==
  LET index == findIndex(nextProps.options, w.state[i].activeOption)
      w1 == IF ~isEqual(props[i].options, nextProps.options)
              THEN IF index # -1
                     THEN setState(w, i, [activeOptionIndex |-> index])
                     ELSE setState(w, i, [activeOption |-> Undefined,
                                          activeOptionIndex |-> -1])
              ELSE w
      selectedOptionsRenderIsInitialRender ==
        Len(props[i].selection) = 0 /\ Len(nextProps.selection) > 0
  IN  IF selectedOptionsRenderIsInitialRender
        THEN setState(w1, i, [activeSelectedOption |-> At(nextProps.selection, 0),
                              activeSelectedOptionIndex |-> 0])
        ELSE w1

\* componentWillUnmount without the release of currentOpenDropdown.
componentWillUnmount_keepsHolder(w, i) == w

componentWillUnmount(w, i) ==
  IF w.cur = i THEN [w EXCEPT !.cur = NoDropdown] ELSE w

(***************************************************************************)
(* The input's onClick and onChange of each variant's sub-render.          *)
(***************************************************************************)
\* The table subRenders of render.
subRenders(variant, multipleOrSingle) ==
  CASE variant = "base" -> "renderBase"
    [] variant = "inline-listbox" ->
         IF multipleOrSingle = "multiple" THEN "renderInlineMultiple" ELSE "renderInlineSingle"
    [] variant = "readonly" ->
         IF multipleOrSingle = "multiple" THEN "renderReadOnlyMultiple" ELSE "renderReadOnlySingle"

\* render: the sub-render it calls.  subRenders[variant] is undefined for a
\* variant that is no key of the table, and reading [multipleOrSingle] from
\* undefined throws a TypeError before variantExists has a value.
render(p) ==
  LET multipleOrSingle == IF p.multiple THEN "multiple" ELSE "single"
  IN  IF p.variant \notin Variants
        THEN "TypeError"
        ELSE LET variantExists == subRenders(p.variant, multipleOrSingle)
             IN  IF variantExists # "" THEN variantExists ELSE "renderBase"

\* The sub-renders with a SelectedListBox: renderBase and
\* renderReadOnlyMultiple always, renderInlineMultiple when selection.length.
pillsAreRendered(i) ==
  \/ render(props[i]) \in {"renderBase", "renderReadOnlyMultiple"}
  \/ render(props[i]) = "renderInlineMultiple" /\ Len(props[i].selection) > 0

\* renderInlineSingle puts a remove button in the input when selection.length.
removeButtonIsRendered(i) ==
  render(props[i]) = "renderInlineSingle" /\ Len(props[i].selection) > 0

\* renderBase and renderInlineMultiple wire the input alike, and so do
\* renderInlineSingle, renderReadOnlySingle and renderReadOnlyMultiple.
rendersBaseInput(i) ==
  \/ props[i].variant = "base"
  \/ props[i].variant = "inline-listbox" /\ props[i].multiple

inputOnClick(w, i) ==
  IF rendersBaseInput(i) THEN openDialog(w, i) ELSE requestOpenMenu(w, i)

inputOnChange(w, i) ==
  IF rendersBaseInput(i) \/ Len(props[i].selection) = 0
    THEN handleInputChange(w, i)
    ELSE w

(***************************************************************************)
(* Actions: one per event the component handles.                           *)
(***************************************************************************)
Apply(w) ==
  /\ state' = w.state
  /\ currentOpenDropdown' = w.cur
  /\ fired' = w.fired

Click(i) ==
  /\ mounted[i]
  /\ Apply(inputOnClick(World, i))
  /\ UNCHANGED <<props, mounted, timers>>

Change(i) ==
  /\ mounted[i]
  /\ Apply(inputOnChange(World, i))
  /\ UNCHANGED <<props, mounted, timers>>

KeyDown(i, key, shiftKey, value) ==
  /\ mounted[i]
  /\ Apply(handleKeyDown(World, i, key, shiftKey, value))
  /\ UNCHANGED <<props, mounted, timers>>

Blur(i) ==
  /\ mounted[i]
  /\ timers[i] < MaxTimers
  /\ timers' = [timers EXCEPT ![i] = @ + 1]
  /\ Apply(handleInputBlur(World, i))
  /\ UNCHANGED <<props, mounted>>

\* The callback handleInputBlur gave to setTimeout; nothing cancels it.
TimerFire(i) ==
  /\ timers[i] > 0
  /\ timers' = [timers EXCEPT ![i] = @ - 1]
  /\ Apply(handleClose(World, i))
  /\ UNCHANGED <<props, mounted>>

ClickOutside(i) ==
  /\ mounted[i]
  /\ Apply(handleClickOutside(World, i))
  /\ UNCHANGED <<props, mounted, timers>>

\* A click on the k-th item of the rendered menu: Menu's onSelect with the
\* selection and the option renderMenu gave it.
MenuSelect(i, k) ==
  /\ mounted[i]
  /\ menuIsRendered(World, i)
  /\ k < Len(props[i].options)
  /\ Apply(handleSelect(World, i, props[i].selection, At(props[i].options, k)))
  /\ UNCHANGED <<props, mounted, timers>>

\* The Dialog's onOpen and onClose callbacks; the Dialog exists while
\* getDialog renders it.
DialogOnOpen(i) ==
  /\ mounted[i]
  /\ dialogIsRendered(World, i)
  /\ Apply(handleOpen(World, i))
  /\ UNCHANGED <<props, mounted, timers>>

DialogOnClose(i) ==
  /\ mounted[i]
  /\ dialogIsRendered(World, i)
  /\ Apply(handleClose(World, i))
  /\ UNCHANGED <<props, mounted, timers>>

\* The host re-renders the component with new props.
ReceiveProps(i, nextProps) ==
  /\ mounted[i]
  /\ Apply(componentWillReceiveProps(World, i, nextProps))
  /\ props' = [props EXCEPT ![i] = nextProps]
  /\ UNCHANGED <<mounted, timers>>

HostSetOptions(i, options) ==
  ReceiveProps(i, [props[i] EXCEPT !.options = options])

\* The selections the last handler handed to the host of instance i.
emitted(i) ==
  SelectSeq(fired, LAMBDA e : e.inst = i /\ e.name \in {"onSelect", "onRequestRemoveSelectedOption"})

\* The host makes the selection it was last handed the selection prop.
HostApplySelection(i) ==
  /\ emitted(i) # <<>>
  /\ Len(emitted(i)[Len(emitted(i))].selection) <= MaxSelection
  /\ ReceiveProps(i, [props[i] EXCEPT !.selection = emitted(i)[Len(emitted(i))].selection])

\* The host of a controlled dropdown sets the isOpen prop.
HostSetIsOpen(i, b) ==
  /\ isBoolean(props[i].isOpen)
  /\ ReceiveProps(i, [props[i] EXCEPT !.isOpen = <<b>>])

\* SelectedListBox's onRequestRemove for the pill at index: it hands over
\* the pill's option and index.
PillRemove(i, index) ==
  /\ mounted[i]
  /\ pillsAreRendered(i)
  /\ index < Len(props[i].selection)
  /\ Apply(handleRemoveSelectedOption(World, i, At(props[i].selection, index), index))
  /\ UNCHANGED <<props, mounted, timers>>

\* The remove button of renderInlineSingle: option is selection[0], and no
\* index is handed over.
RemoveButtonClick(i) ==
  /\ mounted[i]
  /\ removeButtonIsRendered(i)
  /\ Apply(handleRemoveSelectedOption(World, i, At(props[i].selection, 0), NoIndex))
  /\ UNCHANGED <<props, mounted, timers>>

PillClick(i, index) ==
  /\ mounted[i]
  /\ pillsAreRendered(i)
  /\ index < Len(props[i].selection)
  /\ Apply(handlePillClickListboxOfPills(World, i, At(props[i].selection, index), index))
  /\ UNCHANGED <<props, mounted, timers>>

\* onRequestFocusOnNextPill and onRequestFocusOnPreviousPill.
PillNavigate(i, direction) ==
  /\ mounted[i]
  /\ pillsAreRendered(i)
  /\ Len(props[i].selection) > 0
  /\ Apply(handleNavigateListboxOfPills(World, i, direction))
  /\ UNCHANGED <<props, mounted, timers>>

PillBlur(i) ==
  /\ mounted[i]
  /\ pillsAreRendered(i)
  /\ Len(props[i].selection) > 0
  /\ Apply(handleBlurPill(World, i))
  /\ UNCHANGED <<props, mounted, timers>>

Unmount(i) ==
  /\ mounted[i]
  /\ mounted' = [mounted EXCEPT ![i] = FALSE]
  /\ Apply(componentWillUnmount(World, i))
  /\ UNCHANGED <<props, timers>>

(***************************************************************************)
(* Initial states.                                                         *)
(***************************************************************************)
\* Every callback but onRequestOpen is supplied in both; openDialog branches
\* on onRequestOpen alone.
EventSets == {EventNames, EventNames \ {"onRequestOpen"}}

\* defaultProps, with the options prop the host must supply.
defaultProps ==
  [options |-> <<OptA, OptB>>,
   selection |-> <<>>,
   multiple |-> FALSE,
   variant |-> "base",
   isOpen |-> Absent,
   predefinedOptionsOnly |-> FALSE,
   events |-> EventNames \ {"onRequestOpen"},
   isInline |-> FALSE,
   disabled |-> FALSE]

\* The constructor, then the first render: a component whose render throws
\* is not mounted.
InitWith(p) ==
  /\ props = p
  /\ state = [i \in Instances |-> constructorState(p[i])]
  /\ mounted = [i \in Instances |-> render(p[i]) # "TypeError"]
  /\ timers = [i \in Instances |-> 0]
  /\ currentOpenDropdown = NoDropdown
  /\ fired = <<>>

(***************************************************************************)
(* Spec: the system of NumInstances comboboxes under the user's events.    *)
(***************************************************************************)
SystemProps ==
  [options : {<<OptA, OptB>>},
   selection : {<<>>},
   multiple : {FALSE},
   variant : {"base", "inline-listbox"},
   isOpen : {Absent},
   predefinedOptionsOnly : {FALSE},
   events : {EventNames \ {"onRequestOpen"}},
   isInline : BOOLEAN,
   disabled : {FALSE}]

Init == \E p \in [Instances -> SystemProps] : InitWith(p)

UserEvent(i) ==
  \/ Click(i)
  \/ Change(i)
  \/ \E e \in KeyEvents : KeyDown(i, e.key, e.shiftKey, e.value)
  \/ Blur(i)
  \/ TimerFire(i)
  \/ ClickOutside(i)
  \/ \E k \in 0..(MaxOptions - 1) : MenuSelect(i, k)
  \/ DialogOnOpen(i)
  \/ DialogOnClose(i)
  \/ Unmount(i)

Next == \E i \in Instances : UserEvent(i)

Spec == Init /\ [][Next]_vars

(***************************************************************************)
(* SpecWidget: one combobox, instance 1, with a host that updates its      *)
(* props; the other instances stay as mounted.                             *)
(***************************************************************************)
WidgetProps ==
  [options : {<<OptA, OptB>>},
   selection : {<<>>},
   multiple : BOOLEAN,
   variant : Variants,
   isOpen : {Absent, <<FALSE>>},
   predefinedOptionsOnly : {FALSE},
   events : EventSets,
   isInline : {FALSE},
   disabled : {FALSE}]

InitWidget ==
  \E p1 \in WidgetProps :
    InitWith([i \in Instances |-> IF i = 1 THEN p1 ELSE defaultProps])

HostEvent(i) ==
  \/ \E options \in OptionLists : HostSetOptions(i, options)
  \/ HostApplySelection(i)
  \/ \E b \in BOOLEAN : HostSetIsOpen(i, b)

NextWidget == UserEvent(1) \/ HostEvent(1)

SpecWidget == InitWidget /\ [][NextWidget]_vars

(***************************************************************************)
(* SpecSelect: the selection a commit emits and what Enter does, for every *)
(* selection and options array within the bounds, in single and in         *)
(* multiple mode, with and without predefinedOptionsOnly.                  *)
(***************************************************************************)
SelectProps ==
  [options : SeqsUpTo(OptionUniverse, MaxOptions),
   selection : SeqsUpTo(OptionUniverse, MaxSelection),
   multiple : BOOLEAN,
   variant : {"base"},
   isOpen : {Absent},
   predefinedOptionsOnly : BOOLEAN,
   events : {EventNames \ {"onRequestOpen"}},
   isInline : {FALSE},
   disabled : {FALSE}]

InitSelect ==
  \E p1 \in SelectProps :
    InitWith([i \in Instances |-> IF i = 1 THEN p1 ELSE defaultProps])

NextSelect ==
  \/ Click(1)
  \/ \E e \in KeyEvents : KeyDown(1, e.key, e.shiftKey, e.value)
  \/ \E k \in 0..(MaxOptions - 1) : MenuSelect(1, k)

SpecSelect == InitSelect /\ [][NextSelect]_vars

(***************************************************************************)
(* SpecPills: one combobox, instance 1, of any variant, with its selected  *)
(* options: commits, pill removal, pill navigation, and a host that makes  *)
(* every selection it is handed the selection prop.  A single-selection    *)
(* combobox is mounted with at most one selected option.                   *)
(***************************************************************************)
\* A variant that is none of propTypes.variant.
UnknownVariant == "entity"

PillProps ==
  {p \in [options : {<<OptA, OptB>>},
          selection : SeqsUpTo(OptionUniverse, MaxSelection),
          multiple : BOOLEAN,
          variant : Variants \cup {UnknownVariant},
          isOpen : {Absent},
          predefinedOptionsOnly : {FALSE},
          events : {EventNames \ {"onRequestOpen"}},
          isInline : {FALSE},
          disabled : {FALSE}] :
     p.multiple \/ Len(p.selection) <= 1}

InitPills ==
  \E p1 \in PillProps :
    InitWith([i \in Instances |-> IF i = 1 THEN p1 ELSE defaultProps])

PillEvent(i) ==
  \/ \E index \in 0..(MaxSelection - 1) : PillRemove(i, index)
  \/ RemoveButtonClick(i)
  \/ \E index \in 0..(MaxSelection - 1) : PillClick(i, index)
  \/ \E direction \in {"next", "previous"} : PillNavigate(i, direction)
  \/ PillBlur(i)

NextPills ==
  \/ PillEvent(1)
  \/ Click(1)
  \/ KeyDown(1, "DOWN", FALSE, "")
  \/ KeyDown(1, "ENTER", FALSE, "")
  \/ \E k \in 0..(MaxOptions - 1) : MenuSelect(1, k)
  \/ HostApplySelection(1)

SpecPills == InitPills /\ [][NextPills]_vars

(***************************************************************************)
(* SpecOpenClose: one combobox, instance 1, controlled or not, under the   *)
(* user's events and a host that sets the isOpen prop; options and         *)
(* selection stay as mounted.  SpecOpenCloseFair adds that a timer that    *)
(* was set fires: setTimeout runs its callback after the delay.            *)
(***************************************************************************)
NextOpenClose ==
  \/ UserEvent(1)
  \/ \E b \in BOOLEAN : HostSetIsOpen(1, b)

SpecOpenClose == InitWidget /\ [][NextOpenClose]_vars

SpecOpenCloseFair == SpecOpenClose /\ WF_vars(TimerFire(1))

(***************************************************************************)
(* SpecTeardown: the comboboxes after handleOpen ran on one of them while  *)
(* it was closed (it holds currentOpenDropdown, is open and fired onOpen), *)
(* or on none, under the events that open, close and unmount.              *)
(***************************************************************************)
InitTeardown ==
  \E p \in {[i \in Instances |-> defaultProps]}, holder \in Instances \cup {NoDropdown} :
    /\ props = p
    /\ mounted = [i \in Instances |-> TRUE]
    /\ timers = [i \in Instances |-> 0]
    /\ LET w0 == [state |-> [i \in Instances |-> constructorState(p[i])],
                  cur |-> NoDropdown,
                  fired |-> <<>>]
           w == IF holder = NoDropdown THEN w0 ELSE handleOpen(w0, holder)
       IN  /\ state = w.state
           /\ currentOpenDropdown = w.cur
           /\ fired = w.fired

NextTeardown ==
  \E i \in Instances :
    \/ Click(i)
    \/ KeyDown(i, "ESCAPE", FALSE, "")
    \/ Blur(i)
    \/ TimerFire(i)
    \/ DialogOnOpen(i)
    \/ DialogOnClose(i)
    \/ Unmount(i)

SpecTeardown == InitTeardown /\ [][NextTeardown]_vars

(***************************************************************************)
(* SpecStale: one combobox, instance 1, that opens by itself, in the state *)
(* a click on the input, a blur and Escape leave: closed, no active        *)
(* option, onClose fired, and the timer of the blur still to fire.  The    *)
(* input is not blurred again, so every dropdown that is open when the     *)
(* timer fires was opened after the blur.                                  *)
(***************************************************************************)
StaleProps ==
  [options : {<<OptA, OptB>>},
   selection : {<<>>},
   multiple : BOOLEAN,
   variant : Variants,
   isOpen : {Absent},
   predefinedOptionsOnly : {FALSE},
   events : {EventNames \ {"onRequestOpen"}},
   isInline : BOOLEAN,
   disabled : {FALSE}]

InitStale ==
  \E p1 \in StaleProps :
    /\ props = [i \in Instances |-> IF i = 1 THEN p1 ELSE defaultProps]
    /\ state = [i \in Instances |-> constructorState(props[i])]
    /\ mounted = [i \in Instances |-> TRUE]
    /\ timers = [i \in Instances |-> IF i = 1 THEN 1 ELSE 0]
    /\ currentOpenDropdown = NoDropdown
    /\ fired = <<[inst |-> 1, name |-> "onClose", selection |-> <<>>]>>

NextStale ==
  \/ Click(1)
  \/ Change(1)
  \/ \E e \in KeyEvents : KeyDown(1, e.key, e.shiftKey, e.value)
  \/ TimerFire(1)
  \/ ClickOutside(1)
  \/ \E k \in 0..(MaxOptions - 1) : MenuSelect(1, k)
  \/ DialogOnOpen(1)
  \/ DialogOnClose(1)

SpecStale == InitStale /\ [][NextStale]_vars

(***************************************************************************)
(* Vocabulary of the properties.                                           *)
(***************************************************************************)
\* No isOpen prop: the dropdown is opened and closed by the component.
Uncontrolled(i) == ~isBoolean(props[i].isOpen)

\* The places of the notification name of instance i in a log.
Firings(log, i, name) ==
  {n \in 1..Len(log) : log[n].inst = i /\ log[n].name = name}

\* The dropdown of i as its user sees it.
IsOpenNow(i) == getIsOpen(World, i)

\* The open requests of the claims: a click on the input, a change of the
\* input, Down without shift.
OpenRequest(i) ==
  \/ Click(i)
  \/ Change(i)
  \/ KeyDown(i, "DOWN", FALSE, "")

\* The mode policy of requestOpen: multi-select always, single-select
\* inline-listbox when nothing is selected, readonly always; a click on the
\* input of the base variant opens whatever the mode.
PolicyPermits(i) ==
  \/ props[i].multiple
  \/ props[i].variant = "readonly"
  \/ props[i].variant = "inline-listbox" /\ Len(props[i].selection) = 0

\* A selection commit of instance i: a click on a menu item, or Enter with
\* an active option.
Commit(i) ==
  \/ \E k \in 0..(MaxOptions - 1) : MenuSelect(i, k)
  \/ \E value \in {"", "x"} :
       getIsActiveOption(World, i) /\ KeyDown(i, "ENTER", FALSE, value)

\* A selection commit of instance i whose candidate is option.
CommitOf(i, option) ==
  \/ \E k \in 0..(MaxOptions - 1) :
       At(props[i].options, k) = option /\ MenuSelect(i, k)
  \/ \E value \in {"", "x"} :
       /\ getIsActiveOption(World, i)
       /\ state[i].activeOption = option
       /\ KeyDown(i, "ENTER", FALSE, value)

\* option is an entry of selection, by value equality.
IsEntry(selection, option) == \E j \in 1..Len(selection) : selection[j] = option

\* seq without its j-th entry, the others in their order.
RemoveAt(seq, j) == SubSeq(seq, 1, j - 1) \o SubSeq(seq, j + 1, Len(seq))

\* The removal of a pill of instance i: the remove control of the pill at
\* index in the pill strip, or the remove button of the inline single input.
RemovePill(i, index) ==
  \/ PillRemove(i, index)
  \/ index = 0 /\ RemoveButtonClick(i)

\* The focus-to-input rule of a pill removal applies: one pill, or two
\* pills in the read-only multi-select variant.
FocusReturnsToInput(i) ==
  \/ Len(props[i].selection) = 1
  \/ /\ Len(props[i].selection) = 2
     /\ props[i].variant = "readonly"
     /\ props[i].multiple

\* The smaller of two integers.
Min(a, b) == IF a <= b THEN a ELSE b

\* The host takes no part in opening: no isOpen prop and no onRequestOpen
\* callback ("Please use with isOpen", line 69).
OpensByItself(i) == Uncontrolled(i) /\ "onRequestOpen" \notin props[i].events

\* The operations that run close(): Escape, a selection commit, the
\* deferred close of a blur, the Dialog's onClose.
CloseRequest(i) ==
  \/ KeyDown(i, "ESCAPE", FALSE, "")
  \/ Commit(i)
  \/ TimerFire(i)
  \/ DialogOnClose(i)

(***************************************************************************)
(* C1: in every reachable state of a system of two or more uncontrolled    *)
(* comboboxes, at most one mounted instance has isOpen = TRUE.             *)
(***************************************************************************)
C1_AtMostOneOpen ==
  Cardinality({i \in Instances : mounted[i] /\ Uncontrolled(i) /\ state[i].isOpen}) <= 1

(***************************************************************************)
(* C2: when uncontrolled instance b is opened while uncontrolled instance  *)
(* a is open, a is closed by that step and a's onClose is fired before b's *)
(* onOpen.                                                                 *)
(***************************************************************************)
C2_OpeningClosesTheOther ==
  [][\A a, b \in Instances :
       (/\ a # b
        /\ mounted[a] /\ mounted[b]
        /\ Uncontrolled(a) /\ Uncontrolled(b)
        /\ state[a].isOpen
        /\ ~state[b].isOpen
        /\ state'[b].isOpen)
       => /\ ~state'[a].isOpen
          /\ \E m \in Firings(fired', a, "onClose") :
               \E n \in Firings(fired', b, "onOpen") : m < n]_vars

(***************************************************************************)
(* C3: in every reachable state activeOptionIndex is -1 or an index of     *)
(* options, and then activeOption is the option at that index.             *)
(***************************************************************************)
C3_ActiveOptionIsValid ==
  \A i \in Instances :
    \/ state[i].activeOptionIndex = -1
    \/ /\ state[i].activeOptionIndex >= 0
       /\ state[i].activeOptionIndex < Len(props[i].options)
       /\ state[i].activeOption = props[i].options[state[i].activeOptionIndex + 1]

\* The host has shortened options to the one option that was active.
C3_Witness ==
  \E i \in Instances :
    /\ props[i].options = <<OptB>>
    /\ state[i].activeOptionIndex = 0
    /\ state[i].activeOption = OptB

(***************************************************************************)
(* C4: when the host changes options, an active option that is absent     *)
(* from the new array is cleared (undefined, -1), and one that is present  *)
(* keeps its value and gets the index of its first place in the new array. *)
(***************************************************************************)
C4_OptionsChangeReconciles ==
  [][\A i \in Instances :
       props'[i].options # props[i].options
       => LET old == state[i].activeOption
              new == props'[i].options
              places == {k \in 1..Len(new) : new[k] = old}
          IN  IF places = {}
                THEN /\ state'[i].activeOption = Undefined
                     /\ state'[i].activeOptionIndex = -1
                ELSE /\ state'[i].activeOption = old
                     /\ state'[i].activeOptionIndex + 1 \in places
                     /\ \A k \in places : state'[i].activeOptionIndex + 1 <= k]_vars

\* The active option OptA, highlighted at index 0 of the mounted options,
\* sits at index 1 of the options the host supplied since, the menu open.
C4_Witness ==
  \E i \in Instances :
    /\ props[i].options = <<OptB, OptA>>
    /\ state[i].activeOptionIndex = 1
    /\ state[i].activeOption = OptA
    /\ IsOpenNow(i)
    /\ fired = <<>>

(***************************************************************************)
(* C5: while the host supplies the isOpen prop, no operation changes       *)
(* state.isOpen, and the notifications are still fired: onRequestOpen by   *)
(* an open request, onRequestClose by an outside click, onClose by a close *)
(* of the open dropdown.                                                   *)
(***************************************************************************)
C5_ControlledKeepsStateIsOpen ==
  [][\A i \in Instances :
       isBoolean(props[i].isOpen)
       => /\ state'[i].isOpen = state[i].isOpen
          /\ Click(i) /\ (rendersBaseInput(i) \/ PolicyPermits(i))
               => Firings(fired', i, "onRequestOpen") # {}
          /\ ClickOutside(i) => Firings(fired', i, "onRequestClose") # {}
          /\ KeyDown(i, "ESCAPE", FALSE, "") /\ IsOpenNow(i)
               => Firings(fired', i, "onClose") # {}]_vars

(***************************************************************************)
(* C6: a policy-permitted open request (click, input change, Down) on a    *)
(* closed, uncontrolled combobox leaves the instance recorded in           *)
(* currentOpenDropdown, isOpen = TRUE, and onOpen fired exactly once.      *)
(***************************************************************************)
C6_OpenRequestOpens ==
  [][\A i \in Instances :
       (/\ OpenRequest(i)
        /\ PolicyPermits(i)
        /\ Uncontrolled(i)
        /\ ~state[i].isOpen)
       => /\ currentOpenDropdown' = i
          /\ state'[i].isOpen
          /\ Cardinality(Firings(fired', i, "onOpen")) = 1]_vars

(***************************************************************************)
(* C7: an outside click on an open, uncontrolled combobox fires            *)
(* onRequestClose and makes the whole close transition: isOpen = FALSE,    *)
(* no active option, currentOpenDropdown released, onClose fired.          *)
(***************************************************************************)
C7_RequestCloseCloses ==
  [][\A i \in Instances :
       (/\ ClickOutside(i)
        /\ Uncontrolled(i)
        /\ state[i].isOpen)
       => /\ Firings(fired', i, "onRequestClose") # {}
          /\ ~state'[i].isOpen
          /\ state'[i].activeOption = Undefined
          /\ state'[i].activeOptionIndex = -1
          /\ currentOpenDropdown' # i
          /\ Firings(fired', i, "onClose") # {}]_vars

(***************************************************************************)
(* C8: a selection commit (a click on a menu item, or Enter with an active *)
(* option) fires onSelect before any onClose, and leaves an uncontrolled   *)
(* combobox with isOpen = FALSE and activeOptionIndex = -1.                *)
(***************************************************************************)
C8_CommitSelectsThenCloses ==
  [][\A i \in Instances :
       Commit(i)
       => /\ Firings(fired', i, "onSelect") # {}
          /\ \A m \in Firings(fired', i, "onSelect") :
               \A n \in Firings(fired', i, "onClose") : m < n
          /\ Uncontrolled(i)
               => (~state'[i].isOpen /\ state'[i].activeOptionIndex = -1)]_vars

(***************************************************************************)
(* C9: a commit of a candidate that is no entry of the selection emits     *)
(* <<candidate>> in single mode and the selection with the candidate       *)
(* appended in multiple mode.                                              *)
(***************************************************************************)
C9_NonMemberIsAdded ==
  [][\A i \in Instances, c \in OptionUniverse :
       (CommitOf(i, c) /\ ~IsEntry(props[i].selection, c))
       => /\ Firings(fired', i, "onSelect") # {}
          /\ \A n \in Firings(fired', i, "onSelect") :
               fired'[n].selection =
                 IF props[i].multiple THEN Append(props[i].selection, c) ELSE <<c>>]_vars

(***************************************************************************)
(* C10: a commit of a candidate that is an entry of the selection emits,   *)
(* in single and in multiple mode, the selection with that one entry       *)
(* removed and every other entry kept in its order.                        *)
(***************************************************************************)
C10_MemberIsRemoved ==
  [][\A i \in Instances, c \in OptionUniverse :
       (CommitOf(i, c) /\ IsEntry(props[i].selection, c))
       => /\ Firings(fired', i, "onSelect") # {}
          /\ \A n \in Firings(fired', i, "onSelect") :
               \E j \in 1..Len(props[i].selection) :
                 /\ props[i].selection[j] = c
                 /\ fired'[n].selection = RemoveAt(props[i].selection, j)]_vars

(***************************************************************************)
(* C11: a single-selection combobox (multiple false) that is mounted with  *)
(* at most one selected option, and whose host makes every selection       *)
(* handed to onSelect and onRequestRemoveSelectedOption the selection      *)
(* prop, has at most one selected option in every reachable state.         *)
(***************************************************************************)
C11_SingleSelectionAtMostOne ==
  \A i \in Instances : ~props[i].multiple => Len(props[i].selection) <= 1

\* A single-selection combobox mounted with OptA selected (the constructor
\* made it the active selected option) whose selection a commit replaced.
C11_Witness ==
  /\ ~props[1].multiple
  /\ props[1].selection = <<OptB>>
  /\ state[1].activeSelectedOption = OptA

(***************************************************************************)
(* C12: on Enter, onSubmit is fired exactly when there is no active menu   *)
(* option, predefinedOptionsOnly is false and the input value is not       *)
(* empty; with an active option Enter commits that option (onSelect with   *)
(* the selection the commit computes) and fires no onSubmit; in every      *)
(* other case Enter fires nothing and changes no state.                    *)
(***************************************************************************)
C12_EnterSubmitsOrCommits ==
  [][\A i \in Instances, value \in {"", "x"} :
       KeyDown(i, "ENTER", FALSE, value)
       => LET active == getIsActiveOption(World, i)
              submits == ~active /\ ~props[i].predefinedOptionsOnly /\ value # ""
          IN  /\ Firings(fired', i, "onSubmit") # {} <=> submits
              /\ props[i].predefinedOptionsOnly => Firings(fired', i, "onSubmit") = {}
              /\ active
                   => /\ Cardinality(Firings(fired', i, "onSelect")) = 1
                      /\ \A n \in Firings(fired', i, "onSelect") :
                           fired'[n].selection =
                             newSelection(props[i].multiple, props[i].selection,
                                          props[i].selection, state[i].activeOption)
              /\ ~active
                   => /\ state' = state
                      /\ currentOpenDropdown' = currentOpenDropdown
                      /\ Firings(fired', i, "onSelect") = {}
              /\ (~active /\ ~submits) => fired' = <<>>]_vars

\* Enter on a filled input with no active option has fired onSubmit alone.
C12_Witness ==
  /\ fired = <<[inst |-> 1, name |-> "onSubmit", selection |-> <<>>]>>
  /\ ~props[1].predefinedOptionsOnly
  /\ ~getIsActiveOption(World, 1)

(***************************************************************************)
(* C13: when the deferred close a blur scheduled fires after the combobox  *)
(* was unmounted, it does nothing: no state changes, no onClose is fired   *)
(* and currentOpenDropdown is left alone, also when the instance was open  *)
(* when it was unmounted.                                                  *)
(***************************************************************************)
C13_DeferredCloseAfterUnmount ==
  [][\A i \in Instances :
       (TimerFire(i) /\ ~mounted[i])
       => /\ state' = state
          /\ currentOpenDropdown' = currentOpenDropdown
          /\ fired' = <<>>]_vars

(***************************************************************************)
(* C14: removing the pill at index from n pills, when the focus-to-input   *)
(* rule does not apply, hands the host the selection without that pill,    *)
(* sets activeSelectedOptionIndex to n-2 when the pill was the last and to *)
(* index otherwise, and leaves that index within the emitted selection,    *)
(* with activeSelectedOption the option it has at that index.              *)
(***************************************************************************)
C14_RemovalMovesActivePill ==
  [][\A i \in Instances, index \in 0..MaxSelection :
       (/\ PillRemove(i, index)
        /\ Len(props[i].selection) >= 2
        /\ ~FocusReturnsToInput(i))
       => LET n == Len(props[i].selection)
              newIndex == state'[i].activeSelectedOptionIndex
          IN  /\ newIndex = IF index = n - 1 THEN n - 2 ELSE index
              /\ Firings(fired', i, "onRequestRemoveSelectedOption") # {}
              /\ \A k \in Firings(fired', i, "onRequestRemoveSelectedOption") :
                   /\ fired'[k].selection = RemoveAt(props[i].selection, index + 1)
                   /\ newIndex >= 0
                   /\ newIndex < Len(fired'[k].selection)
                   /\ state'[i].activeSelectedOption = At(fired'[k].selection, newIndex)]_vars

(***************************************************************************)
(* C15: removing a pill when the focus-to-input rule applies (one pill,    *)
(* or two in the read-only multi-select variant) leaves listboxHasFocus    *)
(* not true and no active pill that is absent from the emitted selection.  *)
(***************************************************************************)
C15_RemovalReturnsFocusToInput ==
  [][\A i \in Instances, index \in 0..MaxSelection :
       (RemovePill(i, index) /\ FocusReturnsToInput(i))
       => /\ state'[i].listboxHasFocus # <<TRUE>>
          /\ \A k \in Firings(fired', i, "onRequestRemoveSelectedOption") :
               \/ state'[i].activeSelectedOption = Undefined
               \/ IsEntry(fired'[k].selection, state'[i].activeSelectedOption)]_vars

(***************************************************************************)
(* C16: a combobox whose variant is none of base, inline-listbox, readonly *)
(* is rendered, in single and in multiple mode, by the presenter of        *)
(* base/multiple (renderBase), and render does not throw.                  *)
(***************************************************************************)
C16_UnknownVariantFallsBack ==
  \A i \in Instances :
    props[i].variant \notin Variants
    => mounted[i] /\ render(props[i]) = "renderBase"

C18_DownObeysOpenPolicy ==
  [][\A i \in Instances :
       (/\ KeyDown(i, "DOWN", FALSE, "")
        /\ ~props[i].multiple
        /\ props[i].variant = "inline-listbox"
        /\ Len(props[i].selection) > 0)
       => /\ state'[i].isOpen = state[i].isOpen
          /\ Firings(fired', i, "onRequestOpen") = {}]_vars

(***************************************************************************)
(* C19: a Down-arrow or Up-arrow press with shift held leaves isOpen,      *)
(* activeOption and activeOptionIndex as they were and fires nothing.      *)
(***************************************************************************)
C19_ShiftArrowIsIgnored ==
  [][\A i \in Instances, key \in {"DOWN", "UP"} :
       KeyDown(i, key, TRUE, "")
       => /\ state'[i].isOpen = state[i].isOpen
          /\ state'[i].activeOption = state[i].activeOption
          /\ state'[i].activeOptionIndex = state[i].activeOptionIndex
          /\ fired' = <<>>]_vars

(***************************************************************************)
(* C20: Up-arrow without shift moves activeOptionIndex one back, and not   *)
(* at index 0 or -1, whenever the dropdown is open, by state.isOpen or by  *)
(* the isOpen prop, and changes no state when the dropdown is closed.      *)
(***************************************************************************)
C20_UpNavigatesWhenOpen ==
  [][\A i \in Instances :
       KeyDown(i, "UP", FALSE, "")
       => IF IsOpenNow(i)
            THEN state'[i].activeOptionIndex =
                   IF state[i].activeOptionIndex > 0
                     THEN state[i].activeOptionIndex - 1
                     ELSE state[i].activeOptionIndex
            ELSE state' = state]_vars

(***************************************************************************)
(* C21: close() (Escape, a selection commit, the deferred close of a blur) *)
(* on a combobox whose dropdown is closed changes no state, leaves         *)
(* currentOpenDropdown alone and fires no onClose; and a close that fires  *)
(* onClose on a mounted, uncontrolled combobox leaves it closed, so that   *)
(* the close requests that follow fire no further onClose.                 *)
(***************************************************************************)
C21_CloseWhenClosedIsNoOp ==
  [][\A i \in Instances :
       CloseRequest(i)
       => /\ ~IsOpenNow(i)
               => /\ state' = state
                  /\ currentOpenDropdown' = currentOpenDropdown
                  /\ Firings(fired', i, "onClose") = {}
          /\ (mounted[i] /\ Uncontrolled(i) /\ Firings(fired', i, "onClose") # {})
               => /\ Cardinality(Firings(fired', i, "onClose")) = 1
                  /\ ~state'[i].isOpen]_vars

\* A commit on a closed dropdown: onSelect was fired and no onClose.
C21_Witness ==
  /\ ~IsOpenNow(1)
  /\ Len(fired) = 1
  /\ fired[1].inst = 1
  /\ fired[1].name = "onSelect"

(***************************************************************************)
(* C22: pill navigation over a selection of n > 0 options leaves           *)
(* activeSelectedOptionIndex in [0, n), activeSelectedOption the option of *)
(* the selection at that index and listboxHasFocus true; "next" at index   *)
(* n-1 leads to 0 and "previous" at index 0 leads to n-1.                  *)
(***************************************************************************)
C22_PillNavigationWraps ==
  [][\A i \in Instances, direction \in {"next", "previous"} :
       (PillNavigate(i, direction) /\ Len(props[i].selection) > 0)
       => LET n == Len(props[i].selection)
              newIndex == state'[i].activeSelectedOptionIndex
          IN  /\ newIndex >= 0
              /\ newIndex < n
              /\ state'[i].activeSelectedOption = At(props[i].selection, newIndex)
              /\ state'[i].listboxHasFocus = <<TRUE>>
              /\ (direction = "next" /\ state[i].activeSelectedOptionIndex = n - 1)
                   => newIndex = 0
              /\ (direction = "previous" /\ state[i].activeSelectedOptionIndex = 0)
                   => newIndex = n - 1]_vars

(***************************************************************************)
(* C25: in every reachable state a combobox whose dropdown is closed       *)
(* (getIsOpen false) has no active menu option: activeOptionIndex is -1    *)
(* and activeOption is undefined; so Enter on it commits nothing.          *)
(***************************************************************************)
C25_ClosedHasNoActiveOption ==
  \A i \in Instances :
    ~IsOpenNow(i)
    => /\ state[i].activeOptionIndex = -1
       /\ state[i].activeOption = Undefined

(***************************************************************************)
(* C26: in every reachable state currentOpenDropdown, when set, is a       *)
(* mounted instance whose dropdown is open, and every mounted,             *)
(* uncontrolled instance whose dropdown is open is currentOpenDropdown.    *)
(***************************************************************************)
C26_RegistryHoldsTheOpenDropdown ==
  /\ currentOpenDropdown # NoDropdown
       => mounted[currentOpenDropdown] /\ IsOpenNow(currentOpenDropdown)
  /\ \A i \in Instances :
       (mounted[i] /\ Uncontrolled(i) /\ state[i].isOpen)
       => currentOpenDropdown = i

(***************************************************************************)
(* C28: whenever the host has made the selection it was handed (by         *)
(* onSelect or onRequestRemoveSelectedOption) the selection prop and that  *)
(* selection is not empty, activeSelectedOptionIndex is an index of the    *)
(* selection and activeSelectedOption is the option there.                 *)
(***************************************************************************)
C28_ActivePillIsValid ==
  [][\A i \in Instances :
       (HostApplySelection(i) /\ Len(props'[i].selection) > 0)
       => /\ state'[i].activeSelectedOptionIndex >= 0
          /\ state'[i].activeSelectedOptionIndex < Len(props'[i].selection)
          /\ state'[i].activeSelectedOption =
               At(props'[i].selection, state'[i].activeSelectedOptionIndex)]_vars

(***************************************************************************)
(* C23: when the input of a mounted, uncontrolled combobox was blurred     *)
(* while the dropdown is open, and the timer the blur set fires, the       *)
(* combobox reaches, while it stays mounted, a state with isOpen false and *)
(* activeOptionIndex -1; and a menu click made before the timer fires is   *)
(* committed (onSelect fired, the dropdown closed), after which the timer  *)
(* firing on the closed dropdown changes no state.                         *)
(***************************************************************************)
C23_BlurEventuallyCloses ==
  /\ \A i \in Instances :
       (mounted[i] /\ Uncontrolled(i) /\ state[i].isOpen /\ timers[i] > 0)
         ~> (\/ ~mounted[i]
             \/ ~state[i].isOpen /\ state[i].activeOptionIndex = -1)
  /\ [][\A i \in Instances :
          /\ (mounted[i] /\ Uncontrolled(i) /\ timers[i] > 0
              /\ \E k \in 0..(MaxOptions - 1) : MenuSelect(i, k))
               => (Firings(fired', i, "onSelect") # {} /\ ~state'[i].isOpen)
          /\ (TimerFire(i) /\ Uncontrolled(i) /\ ~state[i].isOpen)
               => state' = state]_vars

C27_StaleTimerSparesNewSession ==
  [][TimerFire(1)
       => /\ state'[1].isOpen = state[1].isOpen
          /\ state'[1].activeOption = state[1].activeOption
          /\ state'[1].activeOptionIndex = state[1].activeOptionIndex]_vars

====
